---- MODULE Spec2Model ----
(***************************************************************************)
(* A model of example.py: calculate_average, find_user and process_data.   *)
(*                                                                         *)
(* Python objects are modelled with their identity where the code can      *)
(* observe it: every list lives in the heap `lists` and is named by its    *)
(* reference (an index), every record (dict) lives in the heap `recs`.     *)
(* Every invocation (one per caller thread) has its own frame: fn, arg,    *)
(* key, pc, idx, total, result, ret.  One action is one step of the        *)
(* interpreter on one frame: one statement, or one iteration of a loop.    *)
(***************************************************************************)
EXTENDS Integers, Sequences, FiniteSets, TLC

VARIABLES
    recs,     \* heap of records: reference -> dict (a function on its keys)
    lists,    \* heap of lists: reference -> sequence of items
    fn,       \* fn[t]: the function invocation t runs
    arg,      \* arg[t]: reference of the list passed (numbers / users / data)
    key,      \* key[t]: the `id` parameter of find_user
    pc,       \* pc[t]: position of invocation t
    idx,      \* idx[t]: position of the list iterator of the for loop
    total,    \* total[t]: local `total` of calculate_average
    result,   \* result[t]: local `result` of process_data (a list reference)
    ret,      \* ret[t]: outcome of the call: none yet, a return or a raise
    input,    \* input[t]: contents of the argument list when the call began
    edited    \* whether a caller modified a list after its call returned

vars == <<recs, lists, fn, arg, key, pc, idx, total, result, ret, input, edited>>

----------------------------------------------------------------------------
(* Bounds *)

MaxNums == 3
MaxUsers == 3
MaxData == 3
MaxStrLen == 2
NumRecs == 2

Numbers == {-3, 1, 2, 4, 6}
Ids == {1, 2}
Chars == {" ", "a"}

----------------------------------------------------------------------------
(* Python values *)

\* The characters str.strip() removes when called without an argument.
Whitespace == {" ", "\t", "\n", "\r", "\f"}

Value(cls, val) == [cls |-> cls, val |-> val]

None == Value("NoneType", <<>>)
Str(s) == Value("str", s)
\* The integer 0 as an item of data: present, falsy, without a strip method.
Zero == Value("int", <<>>)
\* An instance of a str subclass whose __eq__ answers True (and __ne__ False)
\* to a comparison with None; it inherits str.strip.
StrEqNone(s) == Value("StrEqNone", s)
\* An instance of a class whose __eq__ answers True to a comparison with
\* None and that has no strip method.
ObjEqNone == Value("ObjEqNone", <<>>)
Float(q) == Value("float", q)
DictRef(r) == Value("dict", <<r>>)
ListRef(r) == Value("list", <<r>>)

NoOutcome == [kind |-> "none", val |-> None]
Return(v) == [kind |-> "return", val |-> v]
Raise(exc) == [kind |-> "raise", val |-> Value(exc, <<>>)]

SeqsUpTo(S, n) == UNION {[1..k -> S] : k \in 0..n}

----------------------------------------------------------------------------
(* Operators of the language the three functions use *)

Abs(a) == IF a < 0 THEN -a ELSE a

RECURSIVE Gcd(_, _)
Gcd(a, b) == IF b = 0 THEN a ELSE Gcd(b, a % b)

\* total / count for integers and count > 0: the quotient as a fraction in
\* lowest terms <<numerator, denominator>>, denominator > 0.
TrueDiv(a, b) ==
    LET g == Gcd(Abs(a), b) IN <<a \div g, b \div g>>

\* total // count: floor division, the quotient line 7 would give with //.
FloorDiv(a, b) == <<a \div b, 1>>

RECURSIVE LStrip(_)
LStrip(s) ==
    IF s = <<>> \/ Head(s) \notin Whitespace THEN s ELSE LStrip(Tail(s))

RECURSIVE RStrip(_)
RStrip(s) ==
    IF s = <<>> \/ s[Len(s)] \notin Whitespace THEN s
    ELSE RStrip(SubSeq(s, 1, Len(s) - 1))

\* str.strip(): leading and trailing whitespace removed.
StrStrip(s) == RStrip(LStrip(s))

\* line 6: total + n
Accumulate(tot, n) == tot + n

\* Faulty variants of line 7: an empty list answered with 0; floor division.
AverageOutcomeGuarded(tot, count) ==
    IF count = 0 THEN Return(Float(<<0, 1>>))
    ELSE Return(Float(TrueDiv(tot, count)))

AverageOutcomeFloor(tot, count) ==
    IF count = 0 THEN Raise("ZeroDivisionError")
    ELSE Return(Float(FloorDiv(tot, count)))

\* line 7: total / len(numbers), and its outcome
AverageOutcome(tot, count) ==
    IF count = 0 THEN Raise("ZeroDivisionError")
    ELSE Return(Float(TrueDiv(tot, count)))

\* Faulty variant of line 12: user.get('id', 0), no error for a missing key.
LookupIdLenient(user) ==
    IF "id" \in DOMAIN recs[user] THEN Return(recs[user]["id"])
    ELSE Return(0)

\* line 12: user['id'], a KeyError when the dict has no such key
LookupId(user) ==
    IF "id" \in DOMAIN recs[user] THEN Return(recs[user]["id"])
    ELSE Raise("KeyError")

\* Faulty variant of line 12: the comparison off by one.
IdEqualsOffByOne(v, id) == v + 1 = id

\* line 12: ... == id
IdEquals(v, id) == v = id

\* Faulty variant of line 14: not found reported as an error.
NotFoundRaises == Raise("LookupError")

\* line 14: return None
NotFound == Return(None)

\* line 19: item != None.  str and int inherit object.__ne__, which answers
\* True against None; None != None is False; a class may define its own.
NotEqualNone(item) ==
    CASE item.cls = "NoneType" -> FALSE
      [] item.cls \in {"str", "int"} -> TRUE
      [] item.cls \in {"StrEqNone", "ObjEqNone"} -> FALSE

\* line 20: the classes whose instances have a strip method
HasStrip(item) == item.cls \in {"str", "StrEqNone"}

\* Faulty variant of line 20: item.lstrip().
StripLeftOnly(item) ==
    IF HasStrip(item) THEN Return(Str(LStrip(item.val)))
    ELSE Raise("AttributeError")

\* line 20: item.strip(), an AttributeError when item has no such method
Strip(item) ==
    IF HasStrip(item) THEN Return(Str(StrStrip(item.val)))
    ELSE Raise("AttributeError")

\* Faulty variant: the locals kept in one place for all invocations, as
\* module-level (global) variables would be.
FrameShared(t) == 1

\* The frame that holds the locals (total, result, the loop position) of
\* invocation t: every call gets a frame of its own.
Frame(t) == t

\* Faulty variant of line 17: result = data, a second name for the input.
NewListAliased(t) == [ref |-> arg[t], heap |-> lists]

\* line 17: result = [] creates a list and binds result to it.  The pair of
\* the reference result is bound to and the heap after the statement.
NewList(t) == [ref |-> Len(lists) + 1, heap |-> Append(lists, <<>>)]

----------------------------------------------------------------------------
(* Inputs *)

Fns == {"calculate_average", "find_user", "process_data"}

NumberLists == SeqsUpTo(Numbers, MaxNums)

\* A record has an id and a name, or (malformed) a name only.
Dicts == {[id |-> i, name |-> "a"] : i \in Ids} \cup {[name |-> "a"]}
RecHeaps == [1..NumRecs -> Dicts]
DefaultRecs == [r \in 1..NumRecs |-> [id |-> 1, name |-> "a"]]
UserLists == SeqsUpTo(1..NumRecs, MaxUsers)
\* The identifiers looked up: those some record may have, and one none has.
Keys == Ids \cup {9}

Items ==
    {None, Zero, ObjEqNone, StrEqNone(<<"a", " ">>)}
        \cup {Str(s) : s \in SeqsUpTo(Chars, MaxStrLen)}
DataLists == SeqsUpTo(Items, MaxData)

\* What a caller appends to a list after process_data returned.
EditItems == {Str(<<"a">>)}

Threads == DOMAIN pc

----------------------------------------------------------------------------
(* calculate_average, lines 3-8 *)

AvgInit(t) ==
    /\ fn[t] = "calculate_average" /\ pc[t] = "start"
    /\ total' = [total EXCEPT ![Frame(t)] = 0]
    /\ pc' = [pc EXCEPT ![t] = "loop"]
    /\ UNCHANGED <<recs, lists, fn, arg, key, idx, result, ret, input, edited>>

AvgLoop(t) ==
    /\ fn[t] = "calculate_average" /\ pc[t] = "loop"
    /\ idx[Frame(t)] < Len(lists[arg[t]])
    /\ LET n == lists[arg[t]][idx[Frame(t)] + 1] IN
         total' = [total EXCEPT ![Frame(t)] = Accumulate(@, n)]
    /\ idx' = [idx EXCEPT ![Frame(t)] = @ + 1]
    /\ UNCHANGED <<recs, lists, fn, arg, key, pc, result, ret, input, edited>>

AvgLoopEnd(t) ==
    /\ fn[t] = "calculate_average" /\ pc[t] = "loop"
    /\ idx[Frame(t)] >= Len(lists[arg[t]])
    /\ pc' = [pc EXCEPT ![t] = "div"]
    /\ UNCHANGED <<recs, lists, fn, arg, key, idx, total, result, ret, input, edited>>

AvgDiv(t) ==
    /\ fn[t] = "calculate_average" /\ pc[t] = "div"
    /\ ret' = [ret EXCEPT ![t] = AverageOutcome(total[Frame(t)], Len(lists[arg[t]]))]
    /\ pc' = [pc EXCEPT ![t] = "done"]
    /\ UNCHANGED <<recs, lists, fn, arg, key, idx, total, result, input, edited>>

----------------------------------------------------------------------------
(* find_user, lines 10-14 *)

FindLoop(t) ==
    /\ fn[t] = "find_user" /\ pc[t] = "loop"
    /\ idx[Frame(t)] < Len(lists[arg[t]])
    /\ LET user == lists[arg[t]][idx[Frame(t)] + 1]
           v == LookupId(user)
       IN  IF v.kind = "raise"
           THEN /\ ret' = [ret EXCEPT ![t] = v]
                /\ pc' = [pc EXCEPT ![t] = "done"]
                /\ idx' = idx
           ELSE IF IdEquals(v.val, key[t])
           THEN /\ ret' = [ret EXCEPT ![t] = Return(DictRef(user))]
                /\ pc' = [pc EXCEPT ![t] = "done"]
                /\ idx' = idx
           ELSE /\ idx' = [idx EXCEPT ![Frame(t)] = @ + 1]
                /\ UNCHANGED <<ret, pc>>
    /\ UNCHANGED <<recs, lists, fn, arg, key, total, result, input, edited>>

FindLoopEnd(t) ==
    /\ fn[t] = "find_user" /\ pc[t] = "loop"
    /\ idx[Frame(t)] >= Len(lists[arg[t]])
    /\ ret' = [ret EXCEPT ![t] = NotFound]
    /\ pc' = [pc EXCEPT ![t] = "done"]
    /\ UNCHANGED <<recs, lists, fn, arg, key, idx, total, result, input, edited>>

----------------------------------------------------------------------------
(* process_data, lines 16-21 *)

PdInit(t) ==
    /\ fn[t] = "process_data" /\ pc[t] = "start"
    /\ result' = [result EXCEPT ![Frame(t)] = NewList(t).ref]
    /\ lists' = NewList(t).heap
    /\ pc' = [pc EXCEPT ![t] = "loop"]
    /\ UNCHANGED <<recs, fn, arg, key, idx, total, ret, input, edited>>

PdLoop(t) ==
    /\ fn[t] = "process_data" /\ pc[t] = "loop"
    /\ idx[Frame(t)] < Len(lists[arg[t]])
    /\ LET item == lists[arg[t]][idx[Frame(t)] + 1]
           s == Strip(item)
       IN  IF ~NotEqualNone(item)
           THEN /\ idx' = [idx EXCEPT ![Frame(t)] = @ + 1]
                /\ UNCHANGED <<lists, ret, pc>>
           ELSE IF s.kind = "raise"
           THEN /\ ret' = [ret EXCEPT ![t] = s]
                /\ pc' = [pc EXCEPT ![t] = "done"]
                /\ UNCHANGED <<lists, idx>>
           ELSE /\ lists' = [lists EXCEPT ![result[Frame(t)]] = Append(@, s.val)]
                /\ idx' = [idx EXCEPT ![Frame(t)] = @ + 1]
                /\ UNCHANGED <<ret, pc>>
    /\ UNCHANGED <<recs, fn, arg, key, total, result, input, edited>>

PdLoopEnd(t) ==
    /\ fn[t] = "process_data" /\ pc[t] = "loop"
    /\ idx[Frame(t)] >= Len(lists[arg[t]])
    /\ ret' = [ret EXCEPT ![t] = Return(ListRef(result[Frame(t)]))]
    /\ pc' = [pc EXCEPT ![t] = "done"]
    /\ UNCHANGED <<recs, lists, fn, arg, key, idx, total, result, input, edited>>

----------------------------------------------------------------------------
(* The caller of process_data, after the call returned: it owns both lists *)
(* and may modify either.                                                  *)

Returned(t) ==
    fn[t] = "process_data" /\ pc[t] = "done" /\ ret[t].kind = "return"

ResultRef(t) == ret[t].val.val[1]

CallerAppendsToResult(t, v) ==
    /\ Returned(t) /\ ~edited
    /\ lists' = [lists EXCEPT ![ResultRef(t)] = Append(@, v)]
    /\ edited' = TRUE
    /\ UNCHANGED <<recs, fn, arg, key, pc, idx, total, result, ret, input>>

CallerPopsResult(t) ==
    /\ Returned(t) /\ ~edited
    /\ lists[ResultRef(t)] # <<>>
    /\ lists' = [lists EXCEPT ![ResultRef(t)] = SubSeq(@, 1, Len(@) - 1)]
    /\ edited' = TRUE
    /\ UNCHANGED <<recs, fn, arg, key, pc, idx, total, result, ret, input>>

CallerAppendsToInput(t, v) ==
    /\ Returned(t) /\ ~edited
    /\ lists' = [lists EXCEPT ![arg[t]] = Append(@, v)]
    /\ edited' = TRUE
    /\ UNCHANGED <<recs, fn, arg, key, pc, idx, total, result, ret, input>>

CallerPopsInput(t) ==
    /\ Returned(t) /\ ~edited
    /\ lists[arg[t]] # <<>>
    /\ lists' = [lists EXCEPT ![arg[t]] = SubSeq(@, 1, Len(@) - 1)]
    /\ edited' = TRUE
    /\ UNCHANGED <<recs, fn, arg, key, pc, idx, total, result, ret, input>>

----------------------------------------------------------------------------
(* One invocation *)

\* The lists a call of f may be given.
ArgLists(f) ==
    CASE f = "calculate_average" -> NumberLists
      [] f = "find_user" -> UserLists
      [] f = "process_data" -> DataLists

\* The record heaps a call of f is run against: only find_user reads it.
ArgRecs(f) == IF f = "find_user" THEN RecHeaps ELSE {DefaultRecs}

ArgKeys(f) == IF f = "find_user" THEN Keys ELSE {0}

\* line 3, 10, 16: the position a call of f starts at.
Entry(f) == IF f = "find_user" THEN "loop" ELSE "start"

Init ==
    \E f \in Fns :
        /\ fn = <<f>>
        /\ recs \in ArgRecs(f)
        /\ \E l \in ArgLists(f) : lists = <<l>> /\ input = <<l>>
        /\ arg = <<1>>
        /\ key \in [{1} -> ArgKeys(f)]
        /\ pc = <<Entry(f)>>
        /\ idx = <<0>>
        /\ total = <<0>>
        /\ result = <<0>>
        /\ ret = <<NoOutcome>>
        /\ edited = FALSE

Next ==
    \/ \E t \in Threads : AvgInit(t)
    \/ \E t \in Threads : AvgLoop(t)
    \/ \E t \in Threads : AvgLoopEnd(t)
    \/ \E t \in Threads : AvgDiv(t)
    \/ \E t \in Threads : FindLoop(t)
    \/ \E t \in Threads : FindLoopEnd(t)
    \/ \E t \in Threads : PdInit(t)
    \/ \E t \in Threads : PdLoop(t)
    \/ \E t \in Threads : PdLoopEnd(t)
    \/ \E t \in Threads : \E v \in EditItems : CallerAppendsToResult(t, v)
    \/ \E t \in Threads : CallerPopsResult(t)
    \/ \E t \in Threads : \E v \in EditItems : CallerAppendsToInput(t, v)
    \/ \E t \in Threads : CallerPopsInput(t)

Spec == Init /\ [][Next]_vars

----------------------------------------------------------------------------
(* Two invocations running at once, their steps interleaved; the callers   *)
(* modify nothing.  The two may have been given the same list.             *)

MaxConcLen == 2
ConcNumbers == {1, 2}
ConcItems == {None, Zero, Str(<<" ", "a">>)}
ConcRecs ==
    [r \in 1..NumRecs |->
        IF r = 1 THEN [name |-> "a"] ELSE [id |-> 1 + (r % 2), name |-> "a"]]

ConcArgLists(f) ==
    CASE f = "calculate_average" -> SeqsUpTo(ConcNumbers, MaxConcLen)
      [] f = "find_user" -> SeqsUpTo(1..NumRecs, MaxConcLen)
      [] f = "process_data" -> SeqsUpTo(ConcItems, MaxConcLen)

InitConc ==
    \E f1, f2 \in Fns :
        /\ fn = <<f1, f2>>
        /\ recs = ConcRecs
        /\ \E l1 \in ConcArgLists(f1), l2 \in ConcArgLists(f2) :
             \/ lists = <<l1, l2>> /\ arg = <<1, 2>> /\ input = <<l1, l2>>
             \/ /\ f1 = f2 /\ l1 = l2
                /\ lists = <<l1>> /\ arg = <<1, 1>> /\ input = <<l1, l1>>
        /\ key = <<IF f1 = "find_user" THEN 1 ELSE 0,
                   IF f2 = "find_user" THEN 1 ELSE 0>>
        /\ pc = <<Entry(f1), Entry(f2)>>
        /\ idx = <<0, 0>>
        /\ total = <<0, 0>>
        /\ result = <<0, 0>>
        /\ ret = <<NoOutcome, NoOutcome>>
        /\ edited = FALSE

NextConc ==
    \/ \E t \in Threads : AvgInit(t)
    \/ \E t \in Threads : AvgLoop(t)
    \/ \E t \in Threads : AvgLoopEnd(t)
    \/ \E t \in Threads : AvgDiv(t)
    \/ \E t \in Threads : FindLoop(t)
    \/ \E t \in Threads : FindLoopEnd(t)
    \/ \E t \in Threads : PdInit(t)
    \/ \E t \in Threads : PdLoop(t)
    \/ \E t \in Threads : PdLoopEnd(t)

SpecConc == InitConc /\ [][NextConc]_vars

----------------------------------------------------------------------------
(* What the functions are said to compute, stated without the loops *)

RECURSIVE SumSeq(_)
SumSeq(s) == IF s = <<>> THEN 0 ELSE SumSeq(SubSeq(s, 1, Len(s) - 1)) + s[Len(s)]

Finished(t, f) == fn[t] = f /\ pc[t] = "done"

\* The indices of the records of users whose id equals k.
MatchesOf(users, k) ==
    {i \in 1..Len(users) : "id" \in DOMAIN recs[users[i]] /\ recs[users[i]]["id"] = k}

\* The indices of the records of users that have no id field.
MalformedOf(users) ==
    {i \in 1..Len(users) : "id" \notin DOMAIN recs[users[i]]}

Least(S) == CHOOSE i \in S : \A j \in S : i <= j

\* r is s without its leading and its trailing whitespace.
IsTrimOf(r, s) ==
    \E i, j \in 0..Len(s) :
        /\ i + j <= Len(s)
        /\ r = SubSeq(s, i + 1, Len(s) - j)
        /\ \A k \in 1..i : s[k] \in Whitespace
        /\ \A k \in (Len(s) - j + 1)..Len(s) : s[k] \in Whitespace
        /\ r = <<>> \/ (r[1] \notin Whitespace /\ r[Len(r)] \notin Whitespace)

\* The items of I that are not the absent value itself, in order.
Present(I) == SelectSeq(I, LAMBDA x : x.cls # "NoneType")

----------------------------------------------------------------------------
(* calculate_average *)

\* C1: for a non-empty list of numbers calculate_average returns
\* sum / length; the sum is accumulated from 0 in list order (after i
\* iterations total is the sum of the first i numbers); average([2,4,6]) = 4.
C1_AverageIsSumOverLength ==
    \A t \in Threads : fn[t] = "calculate_average" =>
        /\ pc[t] \in {"loop", "div"} =>
               total[t] = SumSeq(SubSeq(input[t], 1, idx[t]))
        /\ (pc[t] = "done" /\ input[t] # <<>>) =>
               /\ ret[t].kind = "return"
               /\ ret[t].val.cls = "float"
               /\ ret[t].val.val[2] > 0
               /\ ret[t].val.val[1] * Len(input[t])
                      = SumSeq(input[t]) * ret[t].val.val[2]
        /\ (pc[t] = "done" /\ input[t] = <<2, 4, 6>>) =>
               ret[t] = Return(Float(<<4, 1>>))

C1_Witness ==
    \E t \in Threads :
        /\ Finished(t, "calculate_average")
        /\ input[t] = <<1, 2, 4>>
        /\ ret[t] = Return(Float(<<7, 3>>))

\* C2: calculate_average of the empty list ends in a ZeroDivisionError that
\* reaches the caller; no value is returned.
C2_EmptyRaisesDivisionError ==
    \A t \in Threads :
        (Finished(t, "calculate_average") /\ input[t] = <<>>) =>
            ret[t] = Raise("ZeroDivisionError")

C2_Witness ==
    \E t \in Threads :
        /\ Finished(t, "calculate_average")
        /\ input[t] = <<>>
        /\ ret[t].kind = "raise"

----------------------------------------------------------------------------
(* find_user *)

\* C3: when every record has an id, find_user returns the record (the very
\* object) at the least index whose id equals the key, and None when no
\* record has that id.
C3_FirstMatchOrNone ==
    \A t \in Threads :
        (Finished(t, "find_user") /\ MalformedOf(input[t]) = {}) =>
            IF MatchesOf(input[t], key[t]) # {}
            THEN ret[t] = Return(DictRef(input[t][Least(MatchesOf(input[t], key[t]))]))
            ELSE ret[t] = Return(None)

\* Two distinct records with equal contents both match; the first is returned.
C3_Witness ==
    \E t \in Threads :
        /\ Finished(t, "find_user")
        /\ input[t] = <<2, 1, 2>>
        /\ MalformedOf(input[t]) = {}
        /\ recs[1] = recs[2]
        /\ key[t] = recs[1]["id"]
        /\ ret[t] = Return(DictRef(2))

\* C4: on records that all have an id (the empty list included) find_user
\* never raises and always has a step to take until it returned; without a
\* match it returns None, which is no record.
C4_FindUserTotal ==
    \A t \in Threads :
        (fn[t] = "find_user" /\ MalformedOf(input[t]) = {}) =>
            /\ ret[t].kind # "raise"
            /\ pc[t] = "done" => ret[t].kind = "return"
            /\ pc[t] # "done" =>
                   /\ idx[t] <= Len(input[t])
                   /\ ENABLED (FindLoop(t) \/ FindLoopEnd(t))
            /\ (pc[t] = "done" /\ MatchesOf(input[t], key[t]) = {}) =>
                   /\ ret[t] = Return(None)
                   /\ \A r \in DOMAIN recs : ret[t].val # DictRef(r)

C4_Witness ==
    \E t \in Threads :
        /\ Finished(t, "find_user")
        /\ input[t] = <<>>
        /\ ret[t] = Return(None)

\* C10: find_user inspects the records in order and stops at the first
\* whose id equals the key or that has no id: a match is returned whatever
\* follows it, a record without id before any match ends the call in a
\* KeyError, and the scan never goes past either.
C10_StopsAtFirstMatch ==
    \A t \in Threads : fn[t] = "find_user" =>
        LET stops == MatchesOf(input[t], key[t]) \cup MalformedOf(input[t]) IN
        /\ stops # {} => idx[t] < Least(stops)
        /\ (pc[t] = "done" /\ stops # {}) =>
               IF Least(stops) \in MalformedOf(input[t])
               THEN ret[t] = Raise("KeyError")
               ELSE ret[t] = Return(DictRef(input[t][Least(stops)]))

\* A record without id after the first match: the match is returned.
C10_Witness ==
    \E t \in Threads :
        /\ Finished(t, "find_user")
        /\ Len(input[t]) = 2
        /\ MatchesOf(input[t], key[t]) = {1}
        /\ MalformedOf(input[t]) = {2}
        /\ ret[t] = Return(DictRef(input[t][1]))

----------------------------------------------------------------------------
(* process_data *)


\* C5: for data whose items are each None or a str, process_data returns a
\* list with one element per item that is not None, the j-th element being
\* the j-th such item without its leading and trailing whitespace;
\* process_data([]) returns [].
C5_CleanStripsPresentItems ==
    \A t \in Threads :
        ( /\ Finished(t, "process_data")
          /\ \A i \in 1..Len(input[t]) : input[t][i].cls \in {"NoneType", "str"} ) =>
            /\ ret[t].kind = "return"
            /\ ret[t].val.cls = "list"
            /\ ~edited =>
                 LET out == lists[ResultRef(t)]
                     P == Present(input[t])
                 IN  /\ Len(out) = Len(P)
                     /\ \A j \in 1..Len(P) :
                            /\ out[j].cls = "str"
                            /\ IsTrimOf(out[j].val, P[j].val)
                     /\ input[t] = <<>> => out = <<>>

C5_Witness ==
    \E t \in Threads :
        /\ Finished(t, "process_data")
        /\ ~edited
        /\ input[t] = <<Str(<<" ", "a">>), None, Str(<<"a", " ">>)>>
        /\ ret[t].kind = "return"
        /\ lists[ResultRef(t)] = <<Str(<<"a">>), Str(<<"a">>)>>

\* C6: process_data leaves an item out if and only if the item is None
\* itself: after i items the result holds one element for each of them that
\* is not None, whatever the item answers to a comparison with None.
C6_OmitsExactlyNone ==
    \A t \in Threads :
        (fn[t] = "process_data" /\ pc[t] \in {"loop", "done"} /\ ~edited) =>
            Len(lists[result[t]]) = Len(Present(SubSeq(input[t], 1, idx[t])))

\* C7: process_data never changes the list it is given, the list it returns
\* is one that did not exist before the call, and after the return a change
\* the caller makes to one of the two lists leaves the other as it was.
C7_InputUntouchedResultFresh ==
    /\ [](\A t \in Threads : fn[t] = "process_data" =>
            /\ ~edited => lists[arg[t]] = input[t]
            /\ pc[t] \in {"loop", "done"} =>
                   /\ result[t] \in DOMAIN lists
                   /\ \A u \in Threads : result[t] # arg[u]
            /\ (pc[t] = "done" /\ ret[t].kind = "return") =>
                   ret[t].val = ListRef(result[t]))
    /\ [][\A t \in Threads : PdInit(t) =>
            (result'[t] \notin DOMAIN lists /\ lists'[result'[t]] = <<>>)]_vars
    /\ [][\A t \in Threads :
            ((\E v \in EditItems : CallerAppendsToResult(t, v)) \/ CallerPopsResult(t))
                => lists'[arg[t]] = lists[arg[t]]]_vars
    /\ [][\A t \in Threads :
            ((\E v \in EditItems : CallerAppendsToInput(t, v)) \/ CallerPopsInput(t))
                => lists'[ResultRef(t)] = lists[ResultRef(t)]]_vars

\* The caller appended to the result; the input is as it was given.
C7_Witness ==
    \E t \in Threads :
        /\ Returned(t)
        /\ edited
        /\ input[t] = <<Str(<<" ", "a">>)>>
        /\ lists[arg[t]] = input[t]
        /\ lists[ResultRef(t)] = <<Str(<<"a">>), Str(<<"a">>)>>

\* C9: when data holds an item that is not None and has no strip method,
\* process_data ends in the AttributeError of that item, returns nothing
\* and leaves data as it was.
C9_UntrimmableItemRaises ==
    \A t \in Threads :
        ( /\ Finished(t, "process_data")
          /\ ~edited
          /\ \E i \in 1..Len(input[t]) :
                input[t][i].cls # "NoneType" /\ ~HasStrip(input[t][i]) ) =>
            /\ ret[t] = Raise("AttributeError")
            /\ lists[arg[t]] = input[t]

----------------------------------------------------------------------------
(* Concurrent invocations *)

\* A step of invocation t.
StepOf(t) ==
    \/ AvgInit(t) \/ AvgLoop(t) \/ AvgLoopEnd(t) \/ AvgDiv(t)
    \/ FindLoop(t) \/ FindLoopEnd(t)
    \/ PdInit(t) \/ PdLoop(t) \/ PdLoopEnd(t)

\* What process_data does from item i of data on, run on its own, having
\* collected acc: the list it returns, or the failure it ends in.
RECURSIVE PdAlone(_, _, _)
PdAlone(data, i, acc) ==
    IF i > Len(data) THEN [kind |-> "return", out |-> acc]
    ELSE IF ~NotEqualNone(data[i]) THEN PdAlone(data, i + 1, acc)
    ELSE IF Strip(data[i]).kind = "raise"
    THEN [kind |-> "raise", out |-> <<Strip(data[i]).val>>]
    ELSE PdAlone(data, i + 1, Append(acc, Strip(data[i]).val))

\* Whether outcome o, in heap h, is what f(l, k) gives when run on its own.
IsOutcomeAlone(o, h, f, l, k) ==
    CASE f = "calculate_average" ->
            o = AverageOutcome(SumSeq(l), Len(l))
      [] f = "find_user" ->
            LET stops == MatchesOf(l, k) \cup MalformedOf(l) IN
            IF stops = {} THEN o = NotFound
            ELSE IF Least(stops) \in MalformedOf(l) THEN o = Raise("KeyError")
            ELSE o = Return(DictRef(l[Least(stops)]))
      [] f = "process_data" ->
            LET a == PdAlone(l, 1, <<>>) IN
            /\ o.kind = a.kind
            /\ a.kind = "raise" => <<o.val>> = a.out
            /\ a.kind = "return" =>
                   o.val.cls = "list" /\ h[o.val.val[1]] = a.out

\* C8: with the steps of several invocations interleaved in any order and
\* no caller modifying a list, every invocation ends with the outcome it has
\* when run on its own, and a step of one invocation changes no local of
\* another and no list but the result list of its own.
C8_InterleavingPreservesResults ==
    /\ [](\A t \in Threads : pc[t] = "done" =>
            IsOutcomeAlone(ret[t], lists, fn[t], input[t], key[t]))
    /\ [][\A t \in Threads : StepOf(t) =>
            /\ \A u \in Threads \ {t} :
                   /\ total'[u] = total[u] /\ idx'[u] = idx[u]
                   /\ result'[u] = result[u] /\ ret'[u] = ret[u]
                   /\ pc'[u] = pc[u]
            /\ \A r \in DOMAIN lists :
                   r # result[t] => lists'[r] = lists[r]]_vars

\* Both invocations were given the same list; invocation 2 began first and
\* is in its loop while invocation 1 has returned, each with a list of its own.
C8_Witness ==
    /\ Cardinality(Threads) = 2
    /\ fn = <<"process_data", "process_data">>
    /\ arg = <<1, 1>>
    /\ input[1] = <<Str(<<" ", "a">>), None>>
    /\ result = <<3, 2>>
    /\ pc = <<"done", "loop">>
    /\ idx[2] = 1
    /\ ret[1] = Return(ListRef(3))
    /\ lists[3] = <<Str(<<"a">>)>>
    /\ lists[2] = <<Str(<<"a">>)>>

====
